---------------------------- MODULE Spec2Model ----------------------------
(***************************************************************************)
(* Model of contacts_scrape (src/main.py): one Tk button handler,         *)
(* on_scrape, that fetches a page, extracts (name, title, email) triples   *)
(* with three regular expressions, inserts them into the SQLite table      *)
(* contacts (email UNIQUE, INSERT OR IGNORE) and writes an aligned table   *)
(* into a text widget.                                                     *)
(*                                                                         *)
(* Strings are sequences of Unicode code points.  Markup is a sequence of  *)
(* tokens: the literal tags the three patterns are made of, any other tag, *)
(* and maximal runs of characters other than "<".  The table contacts is a *)
(* sequence of <<name, title, email>> rows in insertion order; the iid     *)
(* column is left out, since no statement of the program reads it.         *)
(***************************************************************************)
EXTENDS Integers, Sequences, FiniteSets, TLC

VARIABLES
    entry,      \* the text of the URL entry widget
    pc,         \* position of the handler: idle, get, parse, returned, insert, display
    url,        \* on_scrape: url (the stripped entry text)
    status,     \* HTTP status of the response (0: none)
    html,       \* response.text, tokenised
    contacts,   \* the list scrape_contacts returned / save_to_database is given
    k,          \* save_to_database: index of the for loop
    pending,    \* rows inserted by the open, uncommitted transaction
    store,      \* committed rows of table contacts
    display,    \* the chunks inserted into the text widget, in order
    msg,        \* the message box shown by the current action ("" if none)
    log,        \* stages the current action has completed, in order
    calls,      \* save_to_database calls made in a row by the caller
    snapshot    \* the committed rows when the current call of save_to_database began

vars == <<entry, pc, url, status, html, contacts, k, pending, store, display, msg, log,
          calls, snapshot>>

----------------------------------------------------------------------------
(* Bounds of the model.                                                    *)

MaxBlocks == 6

MaxCards == 2

MaxBatch == 3

MaxRows == 2

MaxCalls == 2

----------------------------------------------------------------------------
(* Strings.                                                                *)

Max(a, b) == IF a >= b THEN a ELSE b

Rep(c, n) == [i \in 1..n |-> c]

\* str.isspace(), and \s of a str pattern: the Unicode whitespace code points.
WhiteSpace ==
    {9, 10, 11, 12, 13, 28, 29, 30, 31, 32, 133, 160, 5760} \cup (8192..8202)
        \cup {8232, 8233, 8239, 8287, 12288}

IsSpace(c) == c \in WhiteSpace

AllSpace(s) == \A i \in 1..Len(s) : IsSpace(s[i])

RECURSIVE LStrip(_)
LStrip(s) ==
    IF s # <<>> /\ IsSpace(Head(s)) THEN LStrip(Tail(s)) ELSE s

RECURSIVE RStrip(_)
RStrip(s) ==
    IF s # <<>> /\ IsSpace(s[Len(s)]) THEN RStrip(SubSeq(s, 1, Len(s) - 1)) ELSE s

\* str.strip()
Strip(s) == RStrip(LStrip(s))

----------------------------------------------------------------------------
(* Markup tokens and the three patterns of parse_contacts.                 *)

Tag(kind) == [tok |-> kind, txt |-> <<>>]

\* a maximal run of characters other than "<"
Text(s) == [tok |-> "text", txt |-> s]

IsTag(m, i, kind) == i <= Len(m) /\ m[i].tok = kind

\* ([^<]+): one or more characters other than "<"
IsCapture(m, i) == i <= Len(m) /\ m[i].tok = "text" /\ m[i].txt # <<>>

\* \s* between two tags: nothing, or a run that is whitespace only
SkipSpace(m, i) ==
    IF i <= Len(m) /\ m[i].tok = "text" /\ AllSpace(m[i].txt) THEN i + 1 ELSE i

NoMatch == [len |-> 0, cap |-> <<>>]

\* <div class="member_name"><a href="[^"]+">([^<]+)</a>
name_pattern(m, i) ==
    IF IsTag(m, i, "name_open") /\ IsCapture(m, i + 1) /\ IsTag(m, i + 2, "close_a")
    THEN [len |-> 3, cap |-> m[i + 1].txt]
    ELSE NoMatch

\* <div class="member_info_title">...職稱</div>\s*<div class="member_info_content">([^<]+)</div>
title_pattern(m, i) ==
    LET j == SkipSpace(m, i + 1)
    IN  IF IsTag(m, i, "title_label") /\ IsTag(m, j, "content_open")
           /\ IsCapture(m, j + 1) /\ IsTag(m, j + 2, "close_div")
        THEN [len |-> j + 3 - i, cap |-> m[j + 1].txt]
        ELSE NoMatch

\* <div class="member_info_title">...信箱</div>\s*<div class="member_info_content">
\* <a href="mailto://[^"]+">([^<]+)</a></div>
email_pattern(m, i) ==
    LET j == SkipSpace(m, i + 1)
    IN  IF IsTag(m, i, "email_label") /\ IsTag(m, j, "content_open")
           /\ IsTag(m, j + 1, "mailto_open") /\ IsCapture(m, j + 2)
           /\ IsTag(m, j + 3, "close_a") /\ IsTag(m, j + 4, "close_div")
        THEN [len |-> j + 5 - i, cap |-> m[j + 2].txt]
        ELSE NoMatch

MatchAt(pat, m, i) ==
    CASE pat = "name" -> name_pattern(m, i)
      [] pat = "title" -> title_pattern(m, i)
      [] OTHER -> email_pattern(m, i)

\* re.findall(pattern, html): the captures of the non-overlapping matches, left to
\* right, the scan resuming after each match.
RECURSIVE FindAllFrom(_, _, _)
FindAllFrom(pat, m, i) ==
    IF i > Len(m) THEN <<>>
    ELSE LET r == MatchAt(pat, m, i)
         IN  IF r.len > 0
             THEN <<r.cap>> \o FindAllFrom(pat, m, i + r.len)
             ELSE FindAllFrom(pat, m, i + 1)

findall(pat, m) == FindAllFrom(pat, m, 1)

\* (mutant) the pairing stops one short of the shortest list
RECURSIVE ZipStripShort(_, _, _)
ZipStripShort(names, titles, emails) ==
    IF Len(names) <= 1 \/ Len(titles) <= 1 \/ Len(emails) <= 1 THEN <<>>
    ELSE <<<<Strip(Head(names)), Strip(Head(titles)), Strip(Head(emails))>>>>
            \o ZipStripShort(Tail(names), Tail(titles), Tail(emails))

\* zip(names, titles, emails), each triple stripped
RECURSIVE ZipStrip(_, _, _)
ZipStrip(names, titles, emails) ==
    IF names = <<>> \/ titles = <<>> \/ emails = <<>> THEN <<>>
    ELSE <<<<Strip(Head(names)), Strip(Head(titles)), Strip(Head(emails))>>>>
            \o ZipStrip(Tail(names), Tail(titles), Tail(emails))

parse_contacts(m) ==
    ZipStrip(findall("name", m), findall("title", m), findall("email", m))

----------------------------------------------------------------------------
(* The table contacts: save_to_database.                                   *)

\* email TEXT NOT NULL UNIQUE: some row already carries this email
HasEmail(rows, email) == \E i \in 1..Len(rows) : rows[i][3] = email

UniqueEmails(rows) ==
    \A i, j \in 1..Len(rows) : rows[i][3] = rows[j][3] => i = j

\* (mutant) the statement sees the committed rows only
insert_unless_committed(committed, txn, contact) ==
    IF HasEmail(committed, contact[3]) THEN txn ELSE Append(txn, contact)

\* (mutant) a plain INSERT on a table whose email column is not UNIQUE
insert_always(committed, txn, contact) == Append(txn, contact)

\* INSERT OR IGNORE INTO contacts (name, title, email) VALUES (?, ?, ?), run inside
\* the connection's open transaction: the statement sees the committed rows and the
\* rows the transaction has inserted, and a row whose email is there is skipped.
insert_or_ignore(committed, txn, contact) ==
    IF HasEmail(committed \o txn, contact[3]) THEN txn ELSE Append(txn, contact)

\* (mutant) the table is emptied before the batch is written
commit_batch_only(committed, txn) == txn

\* conn.commit(): the transaction's rows become visible to every later connection
commit(committed, txn) == committed \o txn

----------------------------------------------------------------------------
(* The text widget: display_contacts.                                      *)

name_width == 12

title_width == 28

email_width == 28

\* (mutant) the upper end of the range is excluded
IsChineseBelow(c) == 19968 <= c /\ c < 40959

\* '一' <= char <= '鿿'
IsChinese(c) == 19968 <= c /\ c <= 40959

calculate_padding(element, target_width) ==
    LET chinese_count == Cardinality({i \in 1..Len(element) : IsChinese(element[i])})
        actual_length == Len(element) + chinese_count
    IN  Max(0, target_width - actual_length)

\* f"{'姓名':<10}{'職稱':<26}{'EMAIL':<28}\n": str.format pads by len()
header ==
    <<22995, 21517>> \o Rep(32, 8) \o <<32887, 31281>> \o Rep(32, 24)
        \o <<69, 77, 65, 73, 76>> \o Rep(32, 23) \o <<10>>

separator == Rep(45, name_width + title_width + email_width) \o <<10>>

row(contact) ==
    contact[1] \o Rep(32, calculate_padding(contact[1], name_width))
        \o contact[2] \o Rep(32, calculate_padding(contact[2], title_width))
        \o contact[3] \o Rep(32, calculate_padding(contact[3], email_width))
        \o <<10>>

\* text_widget.delete(1.0, tk.END), then one insert per chunk
display_contacts(cs) == <<header, separator>> \o [i \in 1..Len(cs) |-> row(cs[i])]

----------------------------------------------------------------------------
(* Inputs: entry texts, responses, prior tables.                           *)

SeqsUpTo(S, n) == UNION {[1..m -> S] : m \in 0..n}

RECURSIVE Concat(_)
Concat(ss) == IF ss = <<>> THEN <<>> ELSE Head(ss) \o Concat(Tail(ss))

\* markup that name_pattern matches, capturing s
NameBlock(s) == <<Tag("name_open"), Text(s), Tag("close_a")>>

\* markup that title_pattern matches, capturing s; gap is the run matched by \s*
TitleBlock(gap, s) ==
    <<Tag("title_label")>> \o (IF gap = <<>> THEN <<>> ELSE <<Text(gap)>>)
        \o <<Tag("content_open"), Text(s), Tag("close_div")>>

\* markup that email_pattern matches, capturing s
EmailBlock(s) ==
    <<Tag("email_label"), Tag("content_open"), Tag("mailto_open"), Text(s),
      Tag("close_a"), Tag("close_div")>>

\* an anchor with no text, which name_pattern does not match
EmptyNameBlock == <<Tag("name_open"), Tag("close_a")>>

\* one member card of the page
Card(n, t, e) == NameBlock(n) \o TitleBlock(<<10>>, t) \o EmailBlock(e)

Cards == {Card(n, <<116>>, e) : n \in {<<97>>, <<98, 32>>}, e \in {<<101>>, <<32, 102>>}}

\* the pages the server may answer with
Pages == {Concat(cs) : cs \in SeqsUpTo(Cards, MaxCards)}

\* what the user may have typed: nothing, a blank, " u "
EntryTexts == {<<>>, <<32>>, <<32, 117, 32>>}

\* HTTP statuses of a response; 0 stands for no response (requests.get raised)
Statuses == {0, 200, 404, 503}

\* response.raise_for_status() raises HTTPError for 4xx and 5xx
RaisesForStatus(s) == 400 <= s /\ s < 600

\* contacts.db may hold rows of an earlier run
InitStores == {<<>>, <<<<<<122>>, <<116>>, <<101>>>>>>}

----------------------------------------------------------------------------
(* on_scrape, one step per statement.                                      *)

\* (mutant) the entry text is not tested
NeverMissing(u) == FALSE

\* if not url
IsMissing(u) == u = <<>>

\* (mutant) the result is not tested
AlwaysSave(cs) == TRUE

\* if contacts
ShouldSave(cs) == cs # <<>>

\* (mutant) the request is issued again after a failure
RetryFetch == "get"

\* except requests.RequestException: ... return []
AfterFetchError == "returned"

\* The handler returns: its locals are gone.
Return ==
    /\ pc' = "idle"
    /\ url' = <<>>
    /\ status' = 0
    /\ html' = <<>>
    /\ contacts' = <<>>
    /\ k' = 0
    /\ pending' = <<>>

\* The user edits the entry widget.
TypeUrl ==
    /\ pc = "idle"
    /\ \E e \in EntryTexts : e # entry /\ entry' = e
    /\ UNCHANGED <<pc, url, status, html, contacts, k, pending, store, display, msg,
                   log, calls, snapshot>>

\* The user presses the button: url = url_entry.get().strip(); if not url: showerror.
OnScrape ==
    /\ pc = "idle"
    /\ log' = <<>>
    /\ IF IsMissing(Strip(entry))
       THEN /\ msg' = "missing_url"
            /\ UNCHANGED <<pc, url>>
       ELSE /\ msg' = ""
            /\ url' = Strip(entry)
            /\ pc' = "get"
    /\ UNCHANGED <<entry, status, html, contacts, k, pending, store, display, calls,
                   snapshot>>

\* requests.get(url); response.raise_for_status(): the request succeeds.
FetchOk ==
    /\ pc = "get"
    /\ \E s \in Statuses, page \in Pages :
          /\ s # 0 /\ ~RaisesForStatus(s)
          /\ status' = s
          /\ html' = page
    /\ pc' = "parse"
    /\ log' = Append(log, "fetch")
    /\ UNCHANGED <<entry, url, contacts, k, pending, store, display, msg, calls,
                   snapshot>>

\* requests.get raises, or raise_for_status does: showerror, return [].
FetchFail ==
    /\ pc = "get"
    /\ \E s \in Statuses :
          /\ s = 0 \/ RaisesForStatus(s)
          /\ status' = s
    /\ msg' = "fetch_error"
    /\ contacts' = <<>>
    /\ pc' = AfterFetchError
    /\ log' = Append(log, "fetch")
    /\ UNCHANGED <<entry, url, html, k, pending, store, display, calls, snapshot>>

\* return parse_contacts(response.text)
Parse ==
    /\ pc = "parse"
    /\ contacts' = parse_contacts(html)
    /\ pc' = "returned"
    /\ log' = Append(log, "extract")
    /\ UNCHANGED <<entry, url, status, html, k, pending, store, display, msg, calls,
                   snapshot>>

\* if contacts: save_to_database(contacts) opens its connection; else return.
Check ==
    /\ pc = "returned"
    /\ IF ShouldSave(contacts)
       THEN /\ pc' = "insert"
            /\ k' = 1
            /\ pending' = <<>>
            /\ UNCHANGED <<url, status, html, contacts>>
       ELSE Return
    /\ UNCHANGED <<entry, store, display, msg, log, calls, snapshot>>

\* for contact in contacts: cursor.execute(INSERT OR IGNORE ...)
Insert ==
    /\ pc = "insert"
    /\ k <= Len(contacts)
    /\ pending' = insert_or_ignore(store, pending, contacts[k])
    /\ k' = k + 1
    /\ UNCHANGED <<entry, pc, url, status, html, contacts, store, display, msg, log,
                   calls, snapshot>>

\* cursor.execute raises an error that is not an IntegrityError (disk I/O, a locked
\* file): it leaves save_to_database and on_scrape before conn.commit(), Tk reports
\* the traceback, and the connection's transaction is never committed.
InsertFault ==
    /\ pc = "insert"
    /\ k <= Len(contacts)
    /\ msg' = "traceback"
    /\ Return
    /\ UNCHANGED <<entry, store, display, log, calls, snapshot>>

\* conn.commit(); conn.close()
Commit ==
    /\ pc = "insert"
    /\ k > Len(contacts)
    /\ store' = commit(store, pending)
    /\ pending' = <<>>
    /\ pc' = "display"
    /\ log' = Append(log, "store")
    /\ UNCHANGED <<entry, url, status, html, contacts, k, display, msg, calls, snapshot>>

\* display_contacts(contacts, output_text), and the handler returns
Display ==
    /\ pc = "display"
    /\ display' = display_contacts(contacts)
    /\ log' = Append(log, "format")
    /\ Return
    /\ UNCHANGED <<entry, store, msg, calls, snapshot>>

Init ==
    /\ entry = <<>>
    /\ pc = "idle"
    /\ url = <<>>
    /\ status = 0
    /\ html = <<>>
    /\ contacts = <<>>
    /\ k = 0
    /\ pending = <<>>
    /\ store \in InitStores
    /\ display = <<>>
    /\ msg = ""
    /\ log = <<>>
    /\ calls = 0
    /\ snapshot = <<>>

Next ==
    \/ TypeUrl
    \/ OnScrape
    \/ FetchOk
    \/ FetchFail
    \/ Parse
    \/ Check
    \/ Insert
    \/ InsertFault
    \/ Commit
    \/ Display

Spec == Init /\ [][Next]_vars

----------------------------------------------------------------------------
(* parse_contacts alone, on every markup of up to MaxBlocks blocks.        *)

\* two blocks per pattern, with captures that differ; one follows an anchor with no
\* text, one has a capture of whitespace only and is followed by another tag
ParseBlocks ==
    { NameBlock(<<32, 97>>), EmptyNameBlock \o NameBlock(<<98>>),
      TitleBlock(<<>>, <<116, 32>>), TitleBlock(<<10, 32>>, <<32>>) \o <<Tag("other")>>,
      EmailBlock(<<101>>), EmailBlock(<<32, 102, 10>>) }

ParseMarkups == {Concat(bs) : bs \in SeqsUpTo(ParseBlocks, MaxBlocks)}

InitParse ==
    /\ entry = <<117>>
    /\ pc = "parse"
    /\ url = <<117>>
    /\ status = 200
    /\ html \in ParseMarkups
    /\ contacts = <<>>
    /\ k = 0
    /\ pending = <<>>
    /\ store = <<>>
    /\ display = <<>>
    /\ msg = ""
    /\ log = <<"fetch">>
    /\ calls = 0
    /\ snapshot = <<>>

SpecParse == InitParse /\ [][Parse]_vars

----------------------------------------------------------------------------
(* display_contacts alone, on every list of up to MaxRows contacts.        *)

NameFields == {Rep(19968, 3) \o <<97>>, Rep(40959, 7), <<19967>>, <<40960, 97>>}

TitleFields == {Rep(19968, 15), <<116>>, Rep(97, 28)}

EmailFields == {<<101>>, Rep(101, 29), <<40959>>}

FormatContacts == NameFields \X TitleFields \X EmailFields

InitFormat ==
    /\ entry = <<117>>
    /\ pc = "display"
    /\ url = <<117>>
    /\ status = 200
    /\ html = <<>>
    /\ contacts \in SeqsUpTo(FormatContacts, MaxRows)
    /\ k = Len(contacts) + 1
    /\ pending = <<>>
    /\ store = <<>>
    /\ display = <<>>
    /\ msg = ""
    /\ log = <<"fetch", "extract", "store">>
    /\ calls = 0
    /\ snapshot = <<>>

SpecFormat == InitFormat /\ [][Display]_vars

----------------------------------------------------------------------------
(* save_to_database alone, called up to MaxCalls times in a row with the   *)
(* same batch, on every prior table and every batch of up to MaxBatch.     *)

SaveRows == {<<n, <<116>>, e>> : n \in {<<97>>, <<98>>}, e \in {<<101>>, <<102>>}}

SaveStores == {rows \in SeqsUpTo(SaveRows, 2) : UniqueEmails(rows)}

SaveBatches == SeqsUpTo(SaveRows, MaxBatch)

\* The caller calls save_to_database(contacts) again once it has returned.
SaveAgain ==
    /\ pc = "display"
    /\ calls < MaxCalls
    /\ calls' = calls + 1
    /\ snapshot' = store
    /\ pc' = "insert"
    /\ k' = 1
    /\ pending' = <<>>
    /\ UNCHANGED <<entry, url, status, html, contacts, store, display, msg, log>>

InitSave ==
    /\ entry = <<117>>
    /\ pc = "insert"
    /\ url = <<117>>
    /\ status = 200
    /\ html = <<>>
    /\ contacts \in SaveBatches
    /\ k = 1
    /\ pending = <<>>
    /\ store \in SaveStores
    /\ display = <<>>
    /\ msg = ""
    /\ log = <<"fetch", "extract">>
    /\ calls = 1
    /\ snapshot = store

NextSave ==
    \/ Insert
    \/ InsertFault
    \/ Commit
    \/ SaveAgain

SpecSave == InitSave /\ [][NextSave]_vars

----------------------------------------------------------------------------
(* The claims.                                                             *)

FirstInBatch(cs, i) == \A j \in 1..(i - 1) : cs[j][3] # cs[i][3]

\* the batch positions whose email is new to the table and to the batch so far
Accepted(prior, cs) ==
    {i \in 1..Len(cs) : ~HasEmail(prior, cs[i][3]) /\ FirstInBatch(cs, i)}

\* C1: when save_to_database has returned, the table holds the prior rows, unchanged
\* and in place, plus exactly the first batch record of each email that the prior
\* table did not hold, and no two rows share an email.
C1_SaveAllUnion ==
    pc = "display" =>
        /\ Len(store) = Len(snapshot) + Cardinality(Accepted(snapshot, contacts))
        /\ SubSeq(store, 1, Len(snapshot)) = snapshot
        /\ {store[i] : i \in (Len(snapshot) + 1)..Len(store)}
              = {contacts[i] : i \in Accepted(snapshot, contacts)}
        /\ UniqueEmails(store)

\* a call has returned whose batch collided with the table, collided with itself on
\* records that differ, and added a row
C1_Witness ==
    /\ pc = "display"
    /\ snapshot # <<>>
    /\ \E i \in 1..Len(contacts) : HasEmail(snapshot, contacts[i][3])
    /\ \E i, j \in 1..Len(contacts) :
          /\ i < j
          /\ contacts[i][3] = contacts[j][3]
          /\ contacts[i] # contacts[j]
          /\ i \in Accepted(snapshot, contacts)
    /\ Len(store) > Len(snapshot)

\* C2: a second call of save_to_database with the same batch, right after the
\* first, returns with the table as the first call left it.
C2_Idempotent ==
    (pc = "display" /\ calls >= 2) => store = snapshot

\* the second call has returned, for a batch with a repeated email whose records
\* are all in the table
C2_Witness ==
    /\ pc = "display"
    /\ calls >= 2
    /\ \E i, j \in 1..Len(contacts) : i < j /\ contacts[i][3] = contacts[j][3]
    /\ \A i \in 1..Len(contacts) : HasEmail(store, contacts[i][3])
    /\ Len(store) >= 2

\* C3: from the button press on, no step of an action whose fetch fails changes the
\* table or the widget; the failed fetch yields zero records, and the action then
\* neither stores nor formats.
C3_FetchErrorAborts ==
    [][ /\ (pc' = "get" \/ msg' = "fetch_error") =>
              (store' = store /\ display' = display)
        /\ msg' = "fetch_error" =>
              /\ contacts' = <<>>
              /\ pending' = <<>>
              /\ pc' \in {"returned", "idle"}
              /\ log' = <<"fetch">>
      ]_vars

\* an action whose fetch failed has ended, with rows in the table and text in the
\* widget
C3_Witness ==
    /\ pc = "idle"
    /\ msg = "fetch_error"
    /\ Len(store) >= 2
    /\ Len(display) >= 3

\* C4: every step keeps every row of the table, in place and unchanged.
C4_StoreOnlyGrows ==
    [][Len(store') >= Len(store) /\ SubSeq(store', 1, Len(store)) = store]_vars

\* the table has grown past the row it started with, batches carrying that row's
\* email under other names notwithstanding, and a later action failed
C4_Witness ==
    /\ store # <<>>
    /\ store[1] = <<<<122>>, <<116>>, <<101>>>>
    /\ Len(store) >= 2
    /\ pc = "idle"
    /\ msg \in {"fetch_error", "missing_url", "traceback"}

\* C5 (as claimed): when an insert fails with a storage fault, the rows the call
\* has inserted before it are in the table that later reads see.
C5_PartialBatchKept ==
    [][ (pc = "insert" /\ msg' = "traceback") =>
            \A i \in 1..Len(pending) : \E j \in 1..Len(store') : store'[j] = pending[i]
      ]_vars

\* C6: a button press while the entry text is empty after stripping shows the
\* missing-URL error and ends the action there: no stage runs, and the table and
\* the widget are as before.
C6_MissingUrl ==
    [][ (pc = "idle" /\ Strip(entry) = <<>> /\ entry' = entry) =>
            /\ msg' = "missing_url"
            /\ pc' = "idle"
            /\ log' = <<>>
            /\ store' = store
            /\ display' = display
      ]_vars

\* the button was pressed on a blank entry, with rows in the table and text in the
\* widget
C6_Witness ==
    /\ pc = "idle"
    /\ msg = "missing_url"
    /\ entry = <<32>>
    /\ store # <<>>
    /\ display # <<>>

Chain == <<"fetch", "extract", "store", "format">>

\* C7: the stages an action has completed are an initial part of fetch, extract,
\* store, format, each at most once, and the handler's position agrees with it:
\* nothing precedes the fetch, nothing follows a failed fetch or a storage fault.
C7_SequentialChain ==
    /\ Len(log) <= Len(Chain)
    /\ \A i \in 1..Len(log) : log[i] = Chain[i]
    /\ pc = "get" => log = <<>>
    /\ pc = "parse" => Len(log) = 1
    /\ pc = "returned" => Len(log) = (IF msg = "fetch_error" THEN 1 ELSE 2)
    /\ pc = "insert" => Len(log) = 2
    /\ pc = "display" => Len(log) = 3
    /\ msg = "fetch_error" => Len(log) = 1
    /\ msg = "traceback" => Len(log) = 2
    /\ msg = "missing_url" => log = <<>>

\* an action has run the whole chain
C7_Witness == pc = "idle" /\ log = Chain /\ msg = ""

Min(a, b) == IF a <= b THEN a ELSE b

\* C8: parse_contacts returns as many records as the shortest of the three match
\* lists has matches, the i-th being the stripped i-th match of each pattern.
C8_ZipLength ==
    (pc = "returned" /\ msg = "") =>
        LET names == findall("name", html)
            titles == findall("title", html)
            emails == findall("email", html)
        IN  /\ Len(contacts) = Min(Len(names), Min(Len(titles), Len(emails)))
            /\ \A i \in 1..Len(contacts) :
                  contacts[i] = <<Strip(names[i]), Strip(titles[i]), Strip(emails[i])>>
            /\ (names = <<>> \/ titles = <<>> \/ emails = <<>>) => contacts = <<>>

\* two records came out, differing in every field, from markup with a whitespace
\* run between a title label and its content
C8_Witness ==
    /\ pc = "returned"
    /\ Len(contacts) = 2
    /\ \A j \in 1..3 : contacts[1][j] # contacts[2][j]
    /\ contacts[1][1] = <<97>>

\* C9 (as claimed): no record of parse_contacts has an empty field.
C9_NoEmptyField ==
    pc = "returned" =>
        \A i \in 1..Len(contacts) : \A j \in 1..3 : contacts[i][j] # <<>>

RECURSIVE DisplayWidth(_)
DisplayWidth(s) ==
    IF s = <<>> THEN 0
    ELSE (IF Head(s) \in 19968..40959 THEN 2 ELSE 1) + DisplayWidth(Tail(s))

Padded(field, width) ==
    field \o [i \in 1..(IF width > DisplayWidth(field)
                        THEN width - DisplayWidth(field) ELSE 0) |-> 32]

\* C10: display_contacts writes, after the header and the separator, one row per
\* contact: each field, whole, followed by max(0, width - displayWidth) spaces, for
\* the widths 12, 28 and 28, and a line feed.
C10_Padding ==
    [][ pc = "display" =>
            /\ Len(display') = Len(contacts) + 2
            /\ \A i \in 1..Len(contacts) :
                  display'[i + 2] =
                      Padded(contacts[i][1], 12) \o Padded(contacts[i][2], 28)
                          \o Padded(contacts[i][3], 28) \o <<10>>
      ]_vars

\* a row whose name is three CJK characters and one ASCII character, followed by
\* five spaces, and whose title, wider than its column, is followed by none
C10_Witness ==
    \E i \in 3..Len(display) :
        /\ SubSeq(display[i], 1, 9) = <<19968, 19968, 19968, 97, 32, 32, 32, 32, 32>>
        /\ SubSeq(display[i], 10, 24) = [j \in 1..15 |-> 19968]
        /\ display[i][25] # 32

============================================================================
